---- MODULE Spec2Model ----
(***************************************************************************)
(* The europarl pipeline (src/pipelines/europarl.py): a query parser, one  *)
(* HTTP GET with a sample-data fallback, and a text formatter, called      *)
(* through Pipeline.pipe.                                                  *)
(*                                                                         *)
(* Text is modelled as a sequence of characters, each character a string  *)
(* of length one; "U+00C3" and the like name one non-ASCII code point and *)
(* "LF" names the line feed.  The source file holds its accented words    *)
(* as they are written here (two code points, U+00C3 then another).       *)
(***************************************************************************)
EXTENDS Integers, Sequences, FiniteSets, TLC

\* ------------------------------------------------------------ bounds
\* longest list of records in an upstream body
MaxRecords == 2
\* largest configured MAX_RESULTS
MaxCap == 2
\* most fragments a query handed to parse_query is made of
MaxFrags == 2

\* ------------------------------------------------------------ state
VARIABLES
  MAX_RESULTS,   \* Valves.MAX_RESULTS
  op,            \* "idle", "pipe at GET", or the call that has just returned
  user_message,  \* the text handed to parse_query or pipe
  filters,       \* the filters parsed or handed to fetch_parliament_data
  upstream,      \* what requests.get did
  data,          \* the dict fetch_parliament_data returned
  response,      \* the text pipe returned, line by line
  raised,        \* the exception pipe let through, "none" if none
  calls          \* how often parse_query, requests.get and format_response ran

vars == <<MAX_RESULTS, op, user_message, filters, upstream, data, response, raised, calls>>

\* ------------------------------------------------------------ text
Min(a, b) == IF a <= b THEN a ELSE b
Max(a, b) == IF a >= b THEN a ELSE b

\* str.lower() on the characters that occur: ASCII capitals and U+00C3
UpperChars ==
  <<"A", "B", "C", "D", "E", "F", "G", "H", "I", "J", "K", "L", "M", "N", "O", "P", "Q",
    "R", "S", "T", "U", "V", "W", "X", "Y", "Z", "U+00C3">>
LowerChars ==
  <<"a", "b", "c", "d", "e", "f", "g", "h", "i", "j", "k", "l", "m", "n", "o", "p", "q",
    "r", "s", "t", "u", "v", "w", "x", "y", "z", "U+00E3">>

LowerChar(c) ==
  IF \E i \in 1..Len(UpperChars) : UpperChars[i] = c
  THEN LowerChars[CHOOSE i \in 1..Len(UpperChars) : UpperChars[i] = c]
  ELSE c

Lower(s) == [i \in 1..Len(s) |-> LowerChar(s[i])]

\* s[i:i+len(w)] == w, positions counted from 1
MatchAt(w, s, i) == i + Len(w) - 1 <= Len(s) /\ \A k \in 1..Len(w) : s[i + k - 1] = w[k]

\* Python's  w in s  on strings
Contains(w, s) == \E i \in 1..(Len(s) + 1) : MatchAt(w, s, i)

Digits == {"0", "1", "2", "3", "4", "5", "6", "7", "8", "9"}
WhiteSpace == {" ", "LF"}

IsDigits(s, i, n) == i + n - 1 <= Len(s) /\ \A k \in i..(i + n - 1) : s[k] \in Digits

DigitValue(c) == CHOOSE n \in 0..9 : <<"0", "1", "2", "3", "4", "5", "6", "7", "8", "9">>[n + 1] = c

RECURSIVE ToInt(_)
\* int() of a string of decimal digits
ToInt(s) == IF s = <<>> THEN 0 ELSE 10 * ToInt(SubSeq(s, 1, Len(s) - 1)) + DigitValue(s[Len(s)])

RECURSIVE NatStr(_)
\* str() of a natural number
NatStr(n) ==
  IF n < 10 THEN <<(<<"0", "1", "2", "3", "4", "5", "6", "7", "8", "9">>)[n + 1]>>
  ELSE NatStr(n \div 10) \o NatStr(n % 10)

\* str.strip(): leading and trailing white space removed
Strip(s) ==
  LET keep == {i \in 1..Len(s) : s[i] \notin WhiteSpace}
      lo == CHOOSE i \in keep : \A j \in keep : i <= j
      hi == CHOOSE i \in keep : \A j \in keep : i >= j
  IN  IF keep = {} THEN <<>> ELSE SubSeq(s, lo, hi)

\* Python's seq[:m], also for a negative m
Slice(seq, m) ==
  IF m >= 0 THEN SubSeq(seq, 1, Min(m, Len(seq)))
  ELSE SubSeq(seq, 1, Max(0, Len(seq) + m))

\* ------------------------------------------------------------ dicts and JSON values
\* A Python dict is the sequence of its <<key, value>> pairs in insertion
\* order; a JSON value is <<type, payload>>.
EmptyDict == <<>>
HasKey(d, k) == \E i \in 1..Len(d) : d[i][1] = k
Lookup(d, k) == d[CHOOSE i \in 1..Len(d) : d[i][1] = k][2]
\* d.get(k, default)
DictGet(d, k, default) == IF HasKey(d, k) THEN Lookup(d, k) ELSE default
\* one key of a dict under construction, set only when the code sets it
Opt(key, present, value) == IF present THEN <<<<key, value>>>> ELSE <<>>

JStr(s) == <<"str", s>>
JInt(n) == <<"int", n>>
JBool(b) == <<"bool", b>>
JNull == <<"null", 0>>
JList(l) == <<"list", l>>
JDict(d) == <<"dict", d>>
Tag(x) == x[1]
Val(x) == x[2]

\* item.get(key, default) on a JSON dict
Get(item, key, default) == DictGet(Val(item), key, default)

RECURSIVE Join(_)
Join(ss) == IF ss = <<>> THEN <<>> ELSE Head(ss) \o Join(Tail(ss))

RECURSIVE Str(_)
\* str() of a JSON value (a dict is not rendered: none is ever passed)
Str(x) ==
  CASE Tag(x) = "str" -> Val(x)
    [] Tag(x) = "int" -> NatStr(Val(x))
    [] Tag(x) = "bool" -> IF Val(x) THEN <<"T", "r", "u", "e">> ELSE <<"F", "a", "l", "s", "e">>
    [] Tag(x) = "null" -> <<"N", "o", "n", "e">>
    [] Tag(x) = "list" ->
         <<"[">> \o Join([i \in 1..Len(Val(x)) |->
                           (IF i > 1 THEN <<",", " ">> ELSE <<>>) \o
                           (IF Tag(Val(x)[i]) = "str" THEN <<"'">> \o Val(Val(x)[i]) \o <<"'">>
                            ELSE Str(Val(x)[i]))])
         \o <<"]">>

\* ------------------------------------------------------------ configuration
\* Valves.API_BASE_URL
API_BASE_URL == "https://data.europarl.europa.eu/api/v2"
\* Valves.MAX_RESULTS is an int field with no validator: the values tried
MaxResultsValues == (0 - 1)..MaxCap

\* ------------------------------------------------------------ tables of __init__
country_mapping ==
  << <<<<"f", "r", "a", "n", "c", "e">>, <<"F", "R">>>>,
     <<<<"f", "r", "a", "n", "U+00C3", "U+00A7", "a", "i", "s">>, <<"F", "R">>>>,
     <<<<"f", "r", "e", "n", "c", "h">>, <<"F", "R">>>>,
     <<<<"f", "r", "a", "n", "c", "a", "i", "s">>, <<"F", "R">>>>,
     <<<<"g", "e", "r", "m", "a", "n", "y">>, <<"D", "E">>>>,
     <<<<"a", "l", "l", "e", "m", "a", "g", "n", "e">>, <<"D", "E">>>>,
     <<<<"d", "e", "u", "t", "s", "c", "h">>, <<"D", "E">>>>,
     <<<<"g", "e", "r", "m", "a", "n">>, <<"D", "E">>>>,
     <<<<"i", "t", "a", "l", "y">>, <<"I", "T">>>>,
     <<<<"i", "t", "a", "l", "i", "e">>, <<"I", "T">>>>,
     <<<<"i", "t", "a", "l", "i", "a", "n">>, <<"I", "T">>>>,
     <<<<"i", "t", "a", "l", "i", "a", "n", "o">>, <<"I", "T">>>>,
     <<<<"s", "p", "a", "i", "n">>, <<"E", "S">>>>,
     <<<<"e", "s", "p", "a", "g", "n", "e">>, <<"E", "S">>>>,
     <<<<"s", "p", "a", "n", "i", "s", "h">>, <<"E", "S">>>>,
     <<<<"e", "s", "p", "a", "U+00C3", "U+00B1", "o", "l">>, <<"E", "S">>>>,
     <<<<"p", "o", "l", "a", "n", "d">>, <<"P", "L">>>>,
     <<<<"p", "o", "l", "o", "g", "n", "e">>, <<"P", "L">>>>,
     <<<<"p", "o", "l", "i", "s", "h">>, <<"P", "L">>>>,
     <<<<"n", "e", "t", "h", "e", "r", "l", "a", "n", "d", "s">>, <<"N", "L">>>>,
     <<<<"p", "a", "y", "s", "-", "b", "a", "s">>, <<"N", "L">>>>,
     <<<<"d", "u", "t", "c", "h">>, <<"N", "L">>>>,
     <<<<"b", "e", "l", "g", "i", "u", "m">>, <<"B", "E">>>>,
     <<<<"b", "e", "l", "g", "i", "q", "u", "e">>, <<"B", "E">>>>,
     <<<<"b", "e", "l", "g", "i", "a", "n">>, <<"B", "E">>>>,
     <<<<"a", "u", "s", "t", "r", "i", "a">>, <<"A", "T">>>>,
     <<<<"a", "u", "t", "r", "i", "c", "h", "e">>, <<"A", "T">>>>,
     <<<<"a", "u", "s", "t", "r", "i", "a", "n">>, <<"A", "T">>>>,
     <<<<"p", "o", "r", "t", "u", "g", "a", "l">>, <<"P", "T">>>>,
     <<<<"p", "o", "r", "t", "u", "g", "a", "i", "s">>, <<"P", "T">>>>,
     <<<<"p", "o", "r", "t", "u", "g", "u", "e", "s", "e">>, <<"P", "T">>>>,
     <<<<"g", "r", "e", "e", "c", "e">>, <<"G", "R">>>>,
     <<<<"g", "r", "U+00C3", "U+00A8", "c", "e">>, <<"G", "R">>>>,
     <<<<"g", "r", "e", "e", "k">>, <<"G", "R">>>>,
     <<<<"c", "z", "e", "c", "h">>, <<"C", "Z">>>>,
     <<<<"t", "c", "h", "U+00C3", "U+00A8", "q", "u", "e">>, <<"C", "Z">>>>,
     <<<<"c", "z", "e", "c", "h", " ", "r", "e", "p", "u", "b", "l", "i", "c">>, <<"C", "Z">>>>,
     <<<<"h", "u", "n", "g", "a", "r", "y">>, <<"H", "U">>>>,
     <<<<"h", "o", "n", "g", "r", "i", "e">>, <<"H", "U">>>>,
     <<<<"h", "u", "n", "g", "a", "r", "i", "a", "n">>, <<"H", "U">>>>,
     <<<<"s", "w", "e", "d", "e", "n">>, <<"S", "E">>>>,
     <<<<"s", "u", "U+00C3", "U+00A8", "d", "e">>, <<"S", "E">>>>,
     <<<<"s", "w", "e", "d", "i", "s", "h">>, <<"S", "E">>>>,
     <<<<"d", "e", "n", "m", "a", "r", "k">>, <<"D", "K">>>>,
     <<<<"d", "a", "n", "e", "m", "a", "r", "k">>, <<"D", "K">>>>,
     <<<<"d", "a", "n", "i", "s", "h">>, <<"D", "K">>>>,
     <<<<"f", "i", "n", "l", "a", "n", "d">>, <<"F", "I">>>>,
     <<<<"f", "i", "n", "l", "a", "n", "d", "e">>, <<"F", "I">>>>,
     <<<<"f", "i", "n", "n", "i", "s", "h">>, <<"F", "I">>>>,
     <<<<"i", "r", "e", "l", "a", "n", "d">>, <<"I", "E">>>>,
     <<<<"i", "r", "l", "a", "n", "d", "e">>, <<"I", "E">>>>,
     <<<<"i", "r", "i", "s", "h">>, <<"I", "E">>>>,
     <<<<"s", "l", "o", "v", "a", "k", "i", "a">>, <<"S", "K">>>>,
     <<<<"s", "l", "o", "v", "a", "q", "u", "i", "e">>, <<"S", "K">>>>,
     <<<<"s", "l", "o", "v", "a", "k">>, <<"S", "K">>>>,
     <<<<"s", "l", "o", "v", "e", "n", "i", "a">>, <<"S", "I">>>>,
     <<<<"s", "l", "o", "v", "U+00C3", "U+00A9", "n", "i", "e">>, <<"S", "I">>>>,
     <<<<"s", "l", "o", "v", "e", "n", "i", "a", "n">>, <<"S", "I">>>>,
     <<<<"e", "s", "t", "o", "n", "i", "a">>, <<"E", "E">>>>,
     <<<<"e", "s", "t", "o", "n", "i", "e">>, <<"E", "E">>>>,
     <<<<"e", "s", "t", "o", "n", "i", "a", "n">>, <<"E", "E">>>>,
     <<<<"l", "a", "t", "v", "i", "a">>, <<"L", "V">>>>,
     <<<<"l", "e", "t", "t", "o", "n", "i", "e">>, <<"L", "V">>>>,
     <<<<"l", "a", "t", "v", "i", "a", "n">>, <<"L", "V">>>>,
     <<<<"l", "i", "t", "h", "u", "a", "n", "i", "a">>, <<"L", "T">>>>,
     <<<<"l", "i", "t", "u", "a", "n", "i", "e">>, <<"L", "T">>>>,
     <<<<"l", "i", "t", "h", "u", "a", "n", "i", "a", "n">>, <<"L", "T">>>>,
     <<<<"l", "u", "x", "e", "m", "b", "o", "u", "r", "g">>, <<"L", "U">>>>,
     <<<<"l", "u", "x", "e", "m", "b", "o", "u", "r", "g", "e", "o", "i", "s">>, <<"L", "U">>>>,
     <<<<"m", "a", "l", "t", "a">>, <<"M", "T">>>>,
     <<<<"m", "a", "l", "t", "e">>, <<"M", "T">>>>,
     <<<<"m", "a", "l", "t", "e", "s", "e">>, <<"M", "T">>>>,
     <<<<"c", "y", "p", "r", "u", "s">>, <<"C", "Y">>>>,
     <<<<"c", "h", "y", "p", "r", "e">>, <<"C", "Y">>>>,
     <<<<"c", "y", "p", "r", "i", "o", "t">>, <<"C", "Y">>>>,
     <<<<"c", "r", "o", "a", "t", "i", "a">>, <<"H", "R">>>>,
     <<<<"c", "r", "o", "a", "t", "i", "e">>, <<"H", "R">>>>,
     <<<<"c", "r", "o", "a", "t", "i", "a", "n">>, <<"H", "R">>>>,
     <<<<"b", "u", "l", "g", "a", "r", "i", "a">>, <<"B", "G">>>>,
     <<<<"b", "u", "l", "g", "a", "r", "i", "e">>, <<"B", "G">>>>,
     <<<<"b", "u", "l", "g", "a", "r", "i", "a", "n">>, <<"B", "G">>>>,
     <<<<"r", "o", "m", "a", "n", "i", "a">>, <<"R", "O">>>>,
     <<<<"r", "o", "u", "m", "a", "n", "i", "e">>, <<"R", "O">>>>,
     <<<<"r", "o", "m", "a", "n", "i", "a", "n">>, <<"R", "O">>>>,
     <<<<"u", "k">>, <<"G", "B">>>>,
     <<<<"b", "r", "i", "t", "a", "i", "n">>, <<"G", "B">>>>,
     <<<<"b", "r", "i", "t", "i", "s", "h">>, <<"G", "B">>>>,
     <<<<"u", "n", "i", "t", "e", "d", " ", "k", "i", "n", "g", "d", "o", "m">>, <<"G", "B">>>>,
     <<<<"r", "o", "y", "a", "u", "m", "e", "-", "u", "n", "i">>, <<"G", "B">>>> >>

data_types ==
  << <<"meps", <<"M", "e", "m", "b", "e", "r", "s", " ", "o", "f", " ", "E", "u", "r", "o", "p", "e", "a", "n", " ", "P", "a", "r", "l", "i", "a", "m", "e", "n", "t">>>>,
     <<"meetings", <<"P", "a", "r", "l", "i", "a", "m", "e", "n", "t", "a", "r", "y", " ", "m", "e", "e", "t", "i", "n", "g", "s", " ", "a", "n", "d", " ", "e", "v", "e", "n", "t", "s">>>>,
     <<"adopted-texts", <<"L", "e", "g", "i", "s", "l", "a", "t", "i", "v", "e", " ", "a", "n", "d", " ", "n", "o", "n", "-", "l", "e", "g", "i", "s", "l", "a", "t", "i", "v", "e", " ", "a", "c", "t", "s">>>>,
     <<"documents", <<"P", "a", "r", "l", "i", "a", "m", "e", "n", "t", "a", "r", "y", " ", "d", "o", "c", "u", "m", "e", "n", "t", "s", " ", "a", "n", "d", " ", "r", "e", "p", "o", "r", "t", "s">>>>,
     <<"questions", <<"P", "a", "r", "l", "i", "a", "m", "e", "n", "t", "a", "r", "y", " ", "q", "u", "e", "s", "t", "i", "o", "n", "s", " ", "a", "n", "d", " ", "a", "n", "s", "w", "e", "r", "s">>>>,
     <<"plenary-sessions", <<"P", "l", "e", "n", "a", "r", "y", " ", "s", "e", "s", "s", "i", "o", "n", " ", "d", "o", "c", "u", "m", "e", "n", "t", "s">>>> >>

\* ------------------------------------------------------------ parse_query
\* line 104
MeetingWords ==
  << <<"m", "e", "e", "t", "i", "n", "g">>,
     <<"r", "U+00C3", "U+00A9", "u", "n", "i", "o", "n">>,
     <<"s", "e", "s", "s", "i", "o", "n">>,
     <<"s", "U+00C3", "U+00A9", "a", "n", "c", "e">> >>

\* line 106
AdoptedWords ==
  << <<"a", "d", "o", "p", "t", "e", "d">>,
     <<"r", "e", "s", "o", "l", "u", "t", "i", "o", "n">>,
     <<"d", "i", "r", "e", "c", "t", "i", "v", "e">>,
     <<"r", "e", "g", "u", "l", "a", "t", "i", "o", "n">>,
     <<"a", "d", "o", "p", "t", "U+00C3", "U+00A9">> >>

\* line 108
DocumentWords ==
  << <<"d", "o", "c", "u", "m", "e", "n", "t">>,
     <<"r", "e", "p", "o", "r", "t">>,
     <<"r", "a", "p", "p", "o", "r", "t">>,
     <<"m", "o", "t", "i", "o", "n">> >>

\* line 110
QuestionWords ==
  << <<"q", "u", "e", "s", "t", "i", "o", "n">>,
     <<"a", "n", "s", "w", "e", "r">>,
     <<"r", "U+00C3", "U+00A9", "p", "o", "n", "s", "e">>,
     <<"i", "n", "t", "e", "r", "p", "e", "l", "l", "a", "t", "i", "o", "n">> >>

\* line 112
PlenaryWords ==
  << <<"p", "l", "e", "n", "a", "r", "y">>,
     <<"p", "l", "e", "n", "i", "U+00C3", "U+00A8", "r", "e">>,
     <<"v", "e", "r", "b", "a", "t", "i", "m">>,
     <<"a", "g", "e", "n", "d", "a">> >>

\* any(word in query_lower for word in words)
AnyWordIn(words, query_lower) == \E k \in 1..Len(words) : Contains(words[k], query_lower)

\* a data type parse_query gives up to a wrong order of its tests
ParseDataTypeDocumentsFirst(query_lower) ==
  IF AnyWordIn(DocumentWords, query_lower) THEN "documents"
  ELSE IF AnyWordIn(MeetingWords, query_lower) THEN "meetings"
  ELSE IF AnyWordIn(AdoptedWords, query_lower) THEN "adopted-texts"
  ELSE IF AnyWordIn(QuestionWords, query_lower) THEN "questions"
  ELSE IF AnyWordIn(PlenaryWords, query_lower) THEN "plenary-sessions"
  ELSE "meps"

\* the if/elif chain that sets filters['data_type']
ParseDataType(query_lower) ==
  IF AnyWordIn(MeetingWords, query_lower) THEN "meetings"
  ELSE IF AnyWordIn(AdoptedWords, query_lower) THEN "adopted-texts"
  ELSE IF AnyWordIn(DocumentWords, query_lower) THEN "documents"
  ELSE IF AnyWordIn(QuestionWords, query_lower) THEN "questions"
  ELSE IF AnyWordIn(PlenaryWords, query_lower) THEN "plenary-sessions"
  ELSE "meps"

\* the loop over country_mapping.items() with its break: the index of the
\* first entry, in mapping order, whose name is in query_lower (0: none)
ParseCountry(query_lower) ==
  LET hits == {i \in 1..Len(country_mapping) : Contains(country_mapping[i][1], query_lower)}
  IN  IF hits = {} THEN 0 ELSE CHOOSE i \in hits : \A j \in hits : i <= j

\* the first position from k on that holds no white space
AfterSpaces(s, k) ==
  CHOOSE p \in k..(Len(s) + 1) :
    /\ \A q \in k..(p - 1) : s[q] \in WhiteSpace
    /\ p = Len(s) + 1 \/ s[p] \notin WhiteSpace

BirthWords == {<<"n", "U+00C3", "U+00A9">>, <<"b", "o", "r", "n">>,
               <<"n", "a", "i", "s", "s", "a", "n", "c", "e">>}
AfterWords == {<<"a", "p", "r", "U+00C3", "U+00A8", "s">>, <<"a", "f", "t", "e", "r">>}
BeforeWords == {<<"a", "v", "a", "n", "t">>, <<"b", "e", "f", "o", "r", "e">>}
InWords == {<<"e", "n">>, <<"i", "n">>}

\* re.search(r'(?:<starts>).*?(?:<mids>)\s+(\d{4})', s): group 1 of the
\* leftmost match, its .*? as short as can be; <<>> when nothing matches
YearSearch(s, starts, mids) ==
  LET ends(i) == {i + Len(w) : w \in {x \in starts : MatchAt(x, s, i)}}
      tail(j, m) == /\ MatchAt(m, s, j)
                    /\ j + Len(m) <= Len(s)
                    /\ s[j + Len(m)] \in WhiteSpace
                    /\ IsDigits(s, AfterSpaces(s, j + Len(m)), 4)
      ok(i, j) == \E e \in ends(i) :
                     /\ j >= e
                     /\ \A q \in e..(j - 1) : s[q] # "LF"
                     /\ \E m \in mids : tail(j, m)
      his == {i \in 1..Len(s) : ends(i) # {} /\ \E j \in i..Len(s) : ok(i, j)}
      i0 == CHOOSE i \in his : \A x \in his : i <= x
      js == {j \in i0..Len(s) : ok(i0, j)}
      j0 == CHOOSE j \in js : \A x \in js : j <= x
      m0 == CHOOSE m \in mids : tail(j0, m)
      p0 == AfterSpaces(s, j0 + Len(m0))
  IN  IF his = {} THEN <<>> ELSE SubSeq(s, p0, p0 + 3)

\* f"{g:0>2}"
Pad2(g) == IF Len(g) < 2 THEN <<"0">> \o g ELSE g

\* re.search(r'(\d{4})-(\d{1,2})-(\d{1,2})', s), rendered as parse_query
\* renders it; <<>> when nothing matches
DateSearch(s) ==
  LET g2len(i) == IF IsDigits(s, i + 5, 2) /\ MatchAt(<<"-">>, s, i + 7) /\ IsDigits(s, i + 8, 1)
                  THEN 2
                  ELSE IF IsDigits(s, i + 5, 1) /\ MatchAt(<<"-">>, s, i + 6) /\ IsDigits(s, i + 7, 1)
                  THEN 1 ELSE 0
      his == {i \in 1..Len(s) : IsDigits(s, i, 4) /\ MatchAt(<<"-">>, s, i + 4) /\ g2len(i) > 0}
      i0 == CHOOSE i \in his : \A x \in his : i <= x
      n2 == g2len(i0)
      p3 == i0 + 5 + n2 + 1
      n3 == IF IsDigits(s, p3, 2) THEN 2 ELSE 1
  IN  IF his = {} THEN <<>>
      ELSE SubSeq(s, i0, i0 + 3) \o <<"-">> \o Pad2(SubSeq(s, i0 + 5, i0 + 4 + n2))
           \o <<"-">> \o Pad2(SubSeq(s, p3, p3 + n3 - 1))

\* the filters parse_query builds from the lower-cased query
FiltersOfLowered(query_lower) ==
  LET c == ParseCountry(query_lower)
      after == YearSearch(query_lower, BirthWords, AfterWords)
      before == YearSearch(query_lower, BirthWords, BeforeWords)
      exact == YearSearch(query_lower, BirthWords, InWords)
      date == DateSearch(query_lower)
  IN  <<<<"data_type", ParseDataType(query_lower)>>>>
      \o Opt("country", c # 0, country_mapping[c][2])
      \o Opt("birth_year_after", after # <<>>, ToInt(after))
      \o Opt("birth_year_before", before # <<>>, ToInt(before))
      \o Opt("birth_year", exact # <<>>, ToInt(exact))
      \o Opt("date", date # <<>>, date)

\* query_lower = query.lower() is bound once, then the filters are built
parse_query(query) ==
  CHOOSE fl \in {FiltersOfLowered(query_lower) : query_lower \in {Lower(query)}} : TRUE

\* ------------------------------------------------------------ build_api_url
\* the URL with the birth year handed to the API as a parameter
BuildApiUrlWithBirthYear(fl) ==
  <<API_BASE_URL, "/", DictGet(fl, "data_type", "meps")>>
  \o (IF HasKey(fl, "birth_year_after") THEN <<"?born-after=", Lookup(fl, "birth_year_after")>> ELSE <<>>)

\* f"{API_BASE_URL}/{data_type}", kept as its three pieces
build_api_url(fl) == <<API_BASE_URL, "/", DictGet(fl, "data_type", "meps")>>

\* ------------------------------------------------------------ country filter
possible_fields ==
  <<"hasCountryOfRepresentation", "country", "citizenship", "membershipCountry",
    "representedCountry">>

\* the text of the names in possible_fields
FieldText ==
  << <<"hasCountryOfRepresentation", <<"h", "a", "s", "C", "o", "u", "n", "t", "r", "y", "O", "f", "R", "e", "p", "r", "e", "s", "e", "n", "t", "a", "t", "i", "o", "n">>>>,
     <<"country", <<"c", "o", "u", "n", "t", "r", "y">>>>,
     <<"citizenship", <<"c", "i", "t", "i", "z", "e", "n", "s", "h", "i", "p">>>>,
     <<"membershipCountry", <<"m", "e", "m", "b", "e", "r", "s", "h", "i", "p", "C", "o", "u", "n", "t", "r", "y">>>>,
     <<"representedCountry", <<"r", "e", "p", "r", "e", "s", "e", "n", "t", "e", "d", "C", "o", "u", "n", "t", "r", "y">>>> >>

\* the text of a dict key
KeyText(k) == DictGet(FieldText, k, <<k>>)

\* value == country_code, value a JSON value
EqualsCode(value, country_code) == Tag(value) = "str" /\ Val(value) = country_code

\* the branch of mep_matches_country taken for one field value
FieldValueMatches(field_value, country_code) ==
  CASE Tag(field_value) = "dict" ->
         \/ /\ HasKey(Val(field_value), "country")
            /\ EqualsCode(Lookup(Val(field_value), "country"), country_code)
         \/ /\ HasKey(Val(field_value), "identifier")
            /\ Contains(country_code, Str(Lookup(Val(field_value), "identifier")))
         \/ /\ HasKey(Val(field_value), "@id")
            /\ Contains(country_code, Str(Lookup(Val(field_value), "@id")))
    [] Tag(field_value) = "str" ->
         Val(field_value) = country_code \/ Contains(country_code, Val(field_value))
    [] Tag(field_value) = "list" ->
         \E i \in 1..Len(Val(field_value)) :
            LET item == Val(field_value)[i]
            IN  \/ /\ Tag(item) = "dict"
                   /\ HasKey(Val(item), "country")
                   /\ EqualsCode(Lookup(Val(item), "country"), country_code)
                \/ /\ Tag(item) = "str"
                   /\ Contains(country_code, Val(item))
    [] OTHER -> FALSE

\* "match", "no", or "TypeError" when the record is no dict and
\* field in mep  or  mep[field]  raises
mep_matches_country(mep, country_code) ==
  CASE Tag(mep) = "dict" ->
         IF \E f \in 1..Len(possible_fields) :
               /\ HasKey(Val(mep), possible_fields[f])
               /\ FieldValueMatches(Lookup(Val(mep), possible_fields[f]), country_code)
         THEN "match" ELSE "no"
    [] Tag(mep) = "str" ->
         IF \E f \in 1..Len(possible_fields) : Contains(KeyText(possible_fields[f]), Val(mep))
         THEN "TypeError" ELSE "no"
    [] Tag(mep) = "list" ->
         IF \E f \in 1..Len(possible_fields), i \in 1..Len(Val(mep)) :
               EqualsCode(Val(mep)[i], KeyText(possible_fields[f]))
         THEN "TypeError" ELSE "no"
    [] OTHER -> "TypeError"

\* the elements Python's iteration of a JSON value yields (a list's items,
\* a string's characters, a dict's keys); only called on these three
Items(x) ==
  CASE Tag(x) = "list" -> Val(x)
    [] Tag(x) = "str" -> [i \in 1..Len(Val(x)) |-> JStr(<<Val(x)[i]>>)]
    [] Tag(x) = "dict" -> [i \in 1..Len(Val(x)) |-> JStr(KeyText(Val(x)[i][1]))]

RECURSIVE SelectMatching(_, _)
\* [mep for mep in meps if mep_matches_country(mep, country_code)]
SelectMatching(meps, country_code) ==
  IF meps = <<>> THEN <<>>
  ELSE (IF mep_matches_country(Head(meps), country_code) = "match" THEN <<Head(meps)>> ELSE <<>>)
       \o SelectMatching(Tail(meps), country_code)

\* [raised |-> whether it raises, value |-> what it returns]
apply_filters(meps, fl) ==
  IF HasKey(fl, "country")
  THEN IF Tag(meps) \notin {"list", "str", "dict"}
       THEN [raised |-> TRUE, value |-> JNull]
       ELSE IF \E i \in 1..Len(Items(meps)) :
                  mep_matches_country(Items(meps)[i], Lookup(fl, "country")) = "TypeError"
       THEN [raised |-> TRUE, value |-> JNull]
       ELSE [raised |-> FALSE,
             value |-> JList(SelectMatching(Items(meps), Lookup(fl, "country")))]
  ELSE [raised |-> FALSE, value |-> meps]

\* ------------------------------------------------------------ sample data
sample_meps_data ==
  << JDict(<<<<"identifier", JStr(<<"1", "2", "4", "7", "5", "0">>)>>,
           <<"familyName", JStr(<<"B", "e", "l", "l", "a", "m", "y">>)>>,
           <<"givenName", JStr(<<"F", "r", "a", "n", "U+00C3", "U+00A7", "o", "i", "s", "-", "X", "a", "v", "i", "e", "r">>)>>,
           <<"hasCountryOfRepresentation", JDict(<<<<"@id", JStr(<<"F", "R">>)>>>>)>>>>),
     JDict(<<<<"identifier", JStr(<<"1", "9", "7", "7", "1", "7">>)>>,
           <<"familyName", JStr(<<"G", "l", "u", "c", "k", "s", "m", "a", "n", "n">>)>>,
           <<"givenName", JStr(<<"R", "a", "p", "h", "a", "U+00C3", "U+00AB", "l">>)>>,
           <<"hasCountryOfRepresentation", JDict(<<<<"@id", JStr(<<"F", "R">>)>>>>)>>>>),
     JDict(<<<<"identifier", JStr(<<"2", "5", "7", "0", "7", "6">>)>>,
           <<"familyName", JStr(<<"A", "u", "b", "r", "y">>)>>,
           <<"givenName", JStr(<<"M", "a", "n", "o", "n">>)>>,
           <<"hasCountryOfRepresentation", JDict(<<<<"@id", JStr(<<"F", "R">>)>>>>)>>>>),
     JDict(<<<<"identifier", JStr(<<"1", "9", "7", "1", "2", "3">>)>>,
           <<"familyName", JStr(<<"L", "e", " ", "P", "e", "n">>)>>,
           <<"givenName", JStr(<<"M", "a", "r", "i", "n", "e">>)>>,
           <<"hasCountryOfRepresentation", JDict(<<<<"@id", JStr(<<"F", "R">>)>>>>)>>>>),
     JDict(<<<<"identifier", JStr(<<"2", "8", "2", "6", "6">>)>>,
           <<"familyName", JStr(<<"L", "a", "g", "a", "r", "d", "e">>)>>,
           <<"givenName", JStr(<<"P", "a", "t", "r", "i", "c", "i", "a">>)>>,
           <<"hasCountryOfRepresentation", JDict(<<<<"@id", JStr(<<"F", "R">>)>>>>)>>>>),
     JDict(<<<<"identifier", JStr(<<"9", "6", "8", "3", "4">>)>>,
           <<"familyName", JStr(<<"M", "u", "e", "l", "l", "e", "r">>)>>,
           <<"givenName", JStr(<<"H", "a", "n", "s">>)>>,
           <<"hasCountryOfRepresentation", JDict(<<<<"@id", JStr(<<"D", "E">>)>>>>)>>>>),
     JDict(<<<<"identifier", JStr(<<"9", "8", "7", "6", "5">>)>>,
           <<"familyName", JStr(<<"S", "c", "h", "m", "i", "d", "t">>)>>,
           <<"givenName", JStr(<<"K", "l", "a", "u", "s">>)>>,
           <<"hasCountryOfRepresentation", JDict(<<<<"@id", JStr(<<"D", "E">>)>>>>)>>>>),
     JDict(<<<<"identifier", JStr(<<"8", "7", "6", "5", "4">>)>>,
           <<"familyName", JStr(<<"R", "o", "s", "s", "i">>)>>,
           <<"givenName", JStr(<<"M", "a", "r", "c", "o">>)>>,
           <<"hasCountryOfRepresentation", JDict(<<<<"@id", JStr(<<"I", "T">>)>>>>)>>>>),
     JDict(<<<<"identifier", JStr(<<"7", "6", "5", "4", "3">>)>>,
           <<"familyName", JStr(<<"G", "a", "r", "c", "U+00C3", "U+00AD", "a">>)>>,
           <<"givenName", JStr(<<"M", "a", "r", "U+00C3", "U+00AD", "a">>)>>,
           <<"hasCountryOfRepresentation", JDict(<<<<"@id", JStr(<<"E", "S">>)>>>>)>>>>),
     JDict(<<<<"identifier", JStr(<<"6", "5", "4", "3", "2">>)>>,
           <<"familyName", JStr(<<"K", "o", "w", "a", "l", "s", "k", "i">>)>>,
           <<"givenName", JStr(<<"J", "a", "n">>)>>,
           <<"hasCountryOfRepresentation", JDict(<<<<"@id", JStr(<<"P", "L">>)>>>>)>>>>) >>

sample_meetings_data ==
  << JDict(<<<<"identifier", JStr(<<"E", "P", "-", "2", "0", "2", "4", "-", "0", "1", "-", "1", "5", "-", "P", "L", "N">>)>>,
           <<"title", JStr(<<"P", "l", "e", "n", "a", "r", "y", " ", "S", "e", "s", "s", "i", "o", "n", " ", "J", "a", "n", "u", "a", "r", "y", " ", "2", "0", "2", "4">>)>>,
           <<"startDate", JStr(<<"2", "0", "2", "4", "-", "0", "1", "-", "1", "5">>)>>,
           <<"endDate", JStr(<<"2", "0", "2", "4", "-", "0", "1", "-", "1", "8">>)>>,
           <<"type", JStr(<<"P", "l", "e", "n", "a", "r", "y", " ", "s", "e", "s", "s", "i", "o", "n">>)>>>>),
     JDict(<<<<"identifier", JStr(<<"E", "P", "-", "2", "0", "2", "4", "-", "0", "1", "-", "2", "2", "-", "A", "G", "R", "I">>)>>,
           <<"title", JStr(<<"C", "o", "m", "m", "i", "t", "t", "e", "e", " ", "o", "n", " ", "A", "g", "r", "i", "c", "u", "l", "t", "u", "r", "e", " ", "M", "e", "e", "t", "i", "n", "g">>)>>,
           <<"startDate", JStr(<<"2", "0", "2", "4", "-", "0", "1", "-", "2", "2">>)>>,
           <<"type", JStr(<<"C", "o", "m", "m", "i", "t", "t", "e", "e", " ", "m", "e", "e", "t", "i", "n", "g">>)>>>>) >>

sample_adopted_texts_data ==
  << JDict(<<<<"identifier", JStr(<<"E", "P", "-", "2", "0", "2", "4", "-", "P", "9", "-", "T", "A", "-", "0", "0", "0", "1">>)>>,
           <<"title", JStr(<<"E", "u", "r", "o", "p", "e", "a", "n", " ", "G", "r", "e", "e", "n", " ", "D", "e", "a", "l", " ", "I", "m", "p", "l", "e", "m", "e", "n", "t", "a", "t", "i", "o", "n">>)>>,
           <<"adoptionDate", JStr(<<"2", "0", "2", "4", "-", "0", "1", "-", "1", "6">>)>>,
           <<"type", JStr(<<"R", "e", "s", "o", "l", "u", "t", "i", "o", "n">>)>>,
           <<"subject", JStr(<<"E", "n", "v", "i", "r", "o", "n", "m", "e", "n", "t">>)>>>>),
     JDict(<<<<"identifier", JStr(<<"E", "P", "-", "2", "0", "2", "4", "-", "P", "9", "-", "T", "A", "-", "0", "0", "0", "2">>)>>,
           <<"title", JStr(<<"D", "i", "g", "i", "t", "a", "l", " ", "S", "e", "r", "v", "i", "c", "e", "s", " ", "A", "c", "t", " ", "A", "m", "e", "n", "d", "m", "e", "n", "t">>)>>,
           <<"adoptionDate", JStr(<<"2", "0", "2", "4", "-", "0", "1", "-", "1", "7">>)>>,
           <<"type", JStr(<<"L", "e", "g", "i", "s", "l", "a", "t", "i", "v", "e", " ", "r", "e", "s", "o", "l", "u", "t", "i", "o", "n">>)>>,
           <<"subject", JStr(<<"D", "i", "g", "i", "t", "a", "l", " ", "p", "o", "l", "i", "c", "y">>)>>>>) >>

sample_documents_data ==
  << JDict(<<<<"identifier", JStr(<<"E", "P", "-", "2", "0", "2", "4", "-", "A", "9", "-", "0", "0", "0", "1">>)>>,
           <<"title", JStr(<<"R", "e", "p", "o", "r", "t", " ", "o", "n", " ", "E", "U", " ", "B", "u", "d", "g", "e", "t", " ", "2", "0", "2", "4">>)>>,
           <<"documentType", JStr(<<"R", "e", "p", "o", "r", "t">>)>>,
           <<"author", JStr(<<"C", "o", "m", "m", "i", "t", "t", "e", "e", " ", "o", "n", " ", "B", "u", "d", "g", "e", "t", "s">>)>>,
           <<"date", JStr(<<"2", "0", "2", "4", "-", "0", "1", "-", "1", "0">>)>>>>),
     JDict(<<<<"identifier", JStr(<<"E", "P", "-", "2", "0", "2", "4", "-", "B", "9", "-", "0", "0", "0", "1">>)>>,
           <<"title", JStr(<<"M", "o", "t", "i", "o", "n", " ", "f", "o", "r", " ", "R", "e", "s", "o", "l", "u", "t", "i", "o", "n", " ", "o", "n", " ", "C", "l", "i", "m", "a", "t", "e", " ", "A", "c", "t", "i", "o", "n">>)>>,
           <<"documentType", JStr(<<"M", "o", "t", "i", "o", "n">>)>>,
           <<"author", JStr(<<"P", "o", "l", "i", "t", "i", "c", "a", "l", " ", "G", "r", "o", "u", "p">>)>>,
           <<"date", JStr(<<"2", "0", "2", "4", "-", "0", "1", "-", "1", "2">>)>>>>) >>

sample_questions_data ==
  << JDict(<<<<"identifier", JStr(<<"E", "P", "-", "2", "0", "2", "4", "-", "E", "-", "0", "0", "0", "0", "0", "1">>)>>,
           <<"title", JStr(<<"Q", "u", "e", "s", "t", "i", "o", "n", " ", "o", "n", " ", "M", "i", "g", "r", "a", "t", "i", "o", "n", " ", "P", "o", "l", "i", "c", "y">>)>>,
           <<"questionType", JStr(<<"W", "r", "i", "t", "t", "e", "n", " ", "q", "u", "e", "s", "t", "i", "o", "n">>)>>,
           <<"author", JStr(<<"M", "E", "P", " ", "N", "a", "m", "e">>)>>,
           <<"date", JStr(<<"2", "0", "2", "4", "-", "0", "1", "-", "0", "8">>)>>,
           <<"answered", JBool(TRUE)>>>>),
     JDict(<<<<"identifier", JStr(<<"E", "P", "-", "2", "0", "2", "4", "-", "O", "-", "0", "0", "0", "0", "0", "1">>)>>,
           <<"title", JStr(<<"O", "r", "a", "l", " ", "Q", "u", "e", "s", "t", "i", "o", "n", " ", "o", "n", " ", "E", "n", "e", "r", "g", "y", " ", "T", "r", "a", "n", "s", "i", "t", "i", "o", "n">>)>>,
           <<"questionType", JStr(<<"O", "r", "a", "l", " ", "q", "u", "e", "s", "t", "i", "o", "n">>)>>,
           <<"author", JStr(<<"C", "o", "m", "m", "i", "t", "t", "e", "e", " ", "C", "h", "a", "i", "r">>)>>,
           <<"date", JStr(<<"2", "0", "2", "4", "-", "0", "1", "-", "1", "5">>)>>,
           <<"answered", JBool(FALSE)>>>>) >>

get_sample_data(data_type) ==
  IF data_type = "meps" THEN sample_meps_data
  ELSE IF data_type = "meetings" THEN sample_meetings_data
  ELSE IF data_type = "adopted-texts" THEN sample_adopted_texts_data
  ELSE IF data_type = "documents" THEN sample_documents_data
  ELSE IF data_type = "questions" THEN sample_questions_data
  ELSE sample_meps_data

\* ------------------------------------------------------------ what requests.get does
\* <<kind, status, is_json, json_error, body, msg>>: requests.get raises
\* (kind "exception", msg its str()), or answers with a status and a body.
\* json_error is the class response.json() raises on a body that is no
\* JSON: a ValueError in older releases of requests, a subclass of
\* RequestException in newer ones
Kind(up) == up[1]
StatusCode(up) == up[2]
IsJson(up) == up[3]
JsonError(up) == up[4]
Body(up) == up[5]
Msg(up) == up[6]

\* ------------------------------------------------------------ fetch_parliament_data
RequestFailedText ==
  <<"A", "P", "I", " ", "r", "e", "q", "u", "e", "s", "t", " ", "f", "a", "i", "l", "e", "d", ":", " ">>
UnexpectedErrorText ==
  <<"U", "n", "e", "x", "p", "e", "c", "t", "e", "d", " ", "e", "r", "r", "o", "r", ":", " ">>

\* the dict of the branch with only str(e) for its error
RequestFailedBareMessage(url, msg) ==
  <<<<"success", FALSE>>, <<"error", msg>>, <<"url", url>>>>

\* the dict of the  except requests.exceptions.RequestException  branch
RequestFailed(url, msg) ==
  <<<<"success", FALSE>>, <<"error", RequestFailedText \o msg>>, <<"url", url>>>>

\* the dict of the  except Exception  branch; msg is str(e) as one token
Unexpected(msg) ==
  <<<<"success", FALSE>>, <<"error", UnexpectedErrorText \o <<msg>>>>>>

\* the slice taken one record short
SliceOneShort(seq, m) == Slice(seq, m - 1)

\* filtered_data[:self.valves.MAX_RESULTS]
LimitResults(seq, m) == Slice(seq, m)

\* lines 398-411: filter, limit, and the success dict
Succeed(parliament_data, fl, url) ==
  LET f == apply_filters(parliament_data, fl)
      filtered_data == f.value
      limited_data == LimitResults(Val(filtered_data), MAX_RESULTS)
  IN  IF f.raised THEN Unexpected("TypeError")
      ELSE IF Tag(filtered_data) \notin {"list", "str"} THEN Unexpected("TypeError")
      ELSE <<<<"success", TRUE>>,
             <<"count", Len(limited_data)>>,
             <<"total_available", Len(Val(filtered_data))>>,
             <<"results", <<Tag(filtered_data), limited_data>>>>,
             <<"url", url>>,
             <<"filters", fl>>>>

\* the sample records put in the place of the error
TransportFallsBackToSamples(fl, url, msg) ==
  Succeed(JList(get_sample_data(DictGet(fl, "data_type", "meps"))), fl, url)

\* what fetch_parliament_data returns when requests.get raises
TransportFailure(fl, url, msg) == RequestFailed(url, msg)

fetch_parliament_data(fl, up) ==
  LET url == build_api_url(fl)
  IN  IF Kind(up) = "exception" THEN TransportFailure(fl, url, Msg(up))
      ELSE IF StatusCode(up) # 200
      THEN Succeed(JList(get_sample_data(DictGet(fl, "data_type", "meps"))), fl, url)
      ELSE IF ~IsJson(up)
      THEN IF JsonError(up) = "RequestException"
           THEN RequestFailed(url, Msg(up)) ELSE Unexpected("JSONDecodeError")
      ELSE IF Tag(Body(up)) # "dict" THEN Unexpected("AttributeError")
      ELSE Succeed(Get(Body(up), "data", JList(<<>>)), fl, url)

\* ------------------------------------------------------------ format_item
NA == JStr(<<"N", "/", "A">>)

\* bool(x) of a JSON value
Truthy(x) ==
  CASE Tag(x) = "bool" -> Val(x)
    [] Tag(x) = "null" -> FALSE
    [] Tag(x) = "int" -> Val(x) # 0
    [] Tag(x) = "str" -> Val(x) # <<>>
    [] Tag(x) = "list" -> Val(x) # <<>>
    [] Tag(x) = "dict" -> Val(x) # <<>>

\* s.split('/')[-1]
LastSegment(s) ==
  LET cuts == {i \in 1..Len(s) : s[i] = "/"}
      last == CHOOSE i \in cuts : \A j \in cuts : i >= j
  IN  IF cuts = {} THEN s ELSE SubSeq(s, last + 1, Len(s))

\* the meps branch: [raised, text]
FormatMep(index, item) ==
  LET family == Get(item, "familyName", JStr(<<>>))
      given == Get(item, "givenName", JStr(<<>>))
      label == Get(item, "label", JStr(Val(family) \o <<" ">> \o Val(given)))
      stripped == Strip(Val(label))
      id == Get(item, "id", NA)
      full_name == IF stripped # <<>> THEN stripped
                   ELSE IF Contains(<<"/">>, Str(id)) THEN LastSegment(Val(id)) ELSE Val(NA)
  IN  IF Tag(family) # "str" \/ Tag(given) # "str" THEN [raised |-> "TypeError", text |-> <<>>]
      ELSE IF Tag(label) # "str" THEN [raised |-> "AttributeError", text |-> <<>>]
      ELSE IF stripped = <<>> /\ Contains(<<"/">>, Str(id)) /\ Tag(id) # "str"
      THEN [raised |-> "AttributeError", text |-> <<>>]
      ELSE [raised |-> "none",
            text |-> <<"item", index, full_name, "ID", Get(item, "identifier", NA),
                       "Family Name", Get(item, "familyName", NA),
                       "Given Name", Get(item, "givenName", NA)>>]

\* [raised |-> the exception it raises or "none", text |-> its lines as one tuple]
format_item(index, item, data_type) ==
  IF Tag(item) # "dict" THEN [raised |-> "AttributeError", text |-> <<>>]
  ELSE IF data_type = "meps" THEN FormatMep(index, item)
  ELSE IF data_type = "meetings"
  THEN [raised |-> "none",
        text |-> <<"item", index, Get(item, "title", NA), "ID", Get(item, "identifier", NA),
                   "Type", Get(item, "type", NA), "Start Date", Get(item, "startDate", NA),
                   "End Date", Get(item, "endDate", NA)>>]
  ELSE IF data_type = "adopted-texts"
  THEN [raised |-> "none",
        text |-> <<"item", index, Get(item, "title", NA), "ID", Get(item, "identifier", NA),
                   "Type", Get(item, "type", NA), "Adoption Date", Get(item, "adoptionDate", NA),
                   "Subject", Get(item, "subject", NA)>>]
  ELSE IF data_type = "documents"
  THEN [raised |-> "none",
        text |-> <<"item", index, Get(item, "title", NA), "ID", Get(item, "identifier", NA),
                   "Type", Get(item, "documentType", NA), "Author", Get(item, "author", NA),
                   "Date", Get(item, "date", NA)>>]
  ELSE IF data_type = "questions"
  THEN [raised |-> "none",
        text |-> <<"item", index, Get(item, "title", NA), "ID", Get(item, "identifier", NA),
                   "Type", Get(item, "questionType", NA), "Author", Get(item, "author", NA),
                   "Date", Get(item, "date", NA),
                   "Answered", IF Truthy(Get(item, "answered", JNull))
                               THEN "Yes" ELSE "No">>]
  ELSE [raised |-> "none",
        text |-> <<"item", index, Get(item, "title", Get(item, "identifier", NA))>>]

\* ------------------------------------------------------------ format_response
\* the icon of the header line, by name
Icon(data_type) ==
  IF data_type = "meps" THEN "classical building"
  ELSE IF data_type \in {"documents", "adopted-texts"} THEN "page"
  ELSE IF data_type = "meetings" THEN "calendar"
  ELSE IF data_type = "questions" THEN "question mark"
  ELSE "classical building"

\* the test of the truncation notice written as  count > MAX_RESULTS
NoticeOnlyAboveCap(count) == count > MAX_RESULTS

\* data['count'] >= self.valves.MAX_RESULTS
NoticeDue(count) == count >= MAX_RESULTS

\* 'total_available' in data and data['total_available'] > data['count']
TotalDue(d) == HasKey(d, "total_available") /\ Lookup(d, "total_available") > Lookup(d, "count")

\* [raised, text]: text is the response line by line, each line a tuple
\* that starts with the line's name
format_response(query, d) ==
  IF ~Lookup(d, "success")
  THEN [raised |-> "none", text |-> << <<"error", Lookup(d, "error")>> >>]
  ELSE
    LET data_type == DictGet(Lookup(d, "filters"), "data_type", "meps")
        data_type_name == DictGet(data_types, data_type, <<"D", "a", "t", "a">>)
        results == Items(Lookup(d, "results"))
        items == [i \in 1..Len(results) |-> format_item(i, results[i], data_type)]
        bad == {i \in 1..Len(items) : items[i].raised # "none"}
        first_bad == CHOOSE i \in bad : \A j \in bad : i <= j
    IN  IF Lookup(d, "count") = 0
        THEN [raised |-> "none", text |-> << <<"none found", Lower(data_type_name), query>> >>]
        ELSE IF bad # {} THEN [raised |-> items[first_bad].raised, text |-> <<>>]
        ELSE [raised |-> "none",
              text |-> << <<"header", Icon(data_type), data_type_name>>,
                          <<"query", query>>,
                          <<"results", Lookup(d, "count")>> >>
                       \o [i \in 1..Len(items) |-> items[i].text]
                       \o (IF NoticeDue(Lookup(d, "count")) THEN << <<"showing first", MAX_RESULTS>> >> ELSE <<>>)
                       \o (IF NoticeDue(Lookup(d, "count")) /\ TotalDue(d)
                           THEN << <<"total available", Lookup(d, "total_available")>> >> ELSE <<>>)
                       \o << <<"data from">>,
                             <<"endpoint", DictGet(d, "url", "N/A")>> >>]

\* ------------------------------------------------------------ pipe
BroadTagsText ==
  <<"b", "r", "o", "a", "d", " ", "t", "a", "g", "s", " ", "c", "a", "t", "e", "g", "o", "r", "i", "z", "i", "n", "g">>
CreateConciseText ==
  <<"C", "r", "e", "a", "t", "e", " ", "a", " ", "c", "o", "n", "c", "i", "s", "e">>

TitleDisabled == << <<"title generation disabled">> >>

\* the condition of line 530
IsTitleRequest(user_message_) ==
  \/ Contains(BroadTagsText, Lower(user_message_))
  \/ Contains(CreateConciseText, Lower(user_message_))

\* <<calls of parse_query, of requests.get, of format_response>>
NoCalls == <<0, 0, 0>>

\* ------------------------------------------------------------ inputs
\* what requests.get can do: raise, answer another status than 200, or
\* answer 200 with a body that is JSON or is not
Exception(msg) == <<"exception", 0, FALSE, "none", JNull, msg>>
Status(code) == <<"response", code, FALSE, "none", JNull, <<>>>>
NotJson(json_error) ==
  <<"response", 200, FALSE, json_error, JNull, <<"E", "x", "p", "e", "c", "t", "i", "n", "g">>>>
Json(body) == <<"response", 200, TRUE, "none", body, <<>>>>

NoUpstream == Exception(<<>>)

RecordPool ==
  << JDict(<<<<"identifier", JStr(<<"1">>)>>,
           <<"familyName", JStr(<<"A", "d", "e", "r">>)>>,
           <<"givenName", JStr(<<"B", "o">>)>>,
           <<"hasCountryOfRepresentation", JDict(<<<<"@id", JStr(<<"F", "R">>)>>>>)>>>>),
     JDict(<<<<"identifier", JStr(<<"2">>)>>,
           <<"label", JStr(<<"C", "y", " ", "D", "o", "r", "n">>)>>,
           <<"country", JStr(<<"D", "E">>)>>>>),
     JDict(<<<<"identifier", JInt(3)>>,
           <<"title", JStr(<<"T", "3">>)>>,
           <<"citizenship", JList(<<JStr(<<"h", "t", "t", "p", ":", "/", "/", "x", "/", "F", "R">>), JDict(<<<<"country", JStr(<<"D", "E">>)>>>>)>>)>>>>),
     JDict(<<<<"title", JStr(<<"U", "4">>)>>>>),
     JStr(<<"x", "5">>),
     JInt(7),
     JDict(<<<<"familyName", JNull>>,
           <<"givenName", JStr(<<"E", "v", "e">>)>>>>),
     JDict(<<<<"label", JStr(<<" ", " ">>)>>,
           <<"id", JStr(<<"h", "t", "t", "p", ":", "/", "/", "x", "/", "p", "e", "r", "s", "o", "n", "/", "9">>)>>,
           <<"membershipCountry", JDict(<<<<"identifier", JStr(<<"c", "c", "/", "F", "R">>)>>>>)>>>>) >>

FixedUpstreams ==
  << Exception(<<"c", "o", "n", "n", "e", "c", "t", "i", "o", "n", " ", "r", "e", "f", "u", "s", "e", "d">>),
     Exception(<<>>),
     Status(404),
     Status(500),
     NotJson("ValueError"),
     NotJson("RequestException"),
     Json(JList(<<>>)),
     Json(JDict(<<<<"meta", JNull>>>>)),
     Json(JDict(<<<<"data", JNull>>>>)),
     Json(JDict(<<<<"data", JInt(7)>>>>)),
     Json(JDict(<<<<"data", JStr(<<"a", "b">>)>>>>)),
     Json(JDict(<<<<"data", JDict(EmptyDict)>>>>)) >>

\* the lists of records a body's data can hold, as indices of RecordPool
RecordLists == UNION {[1..n -> 1..Len(RecordPool)] : n \in 0..MaxRecords}

RecordsBody(ix) == Json(JDict(<<<<"data", JList([i \in 1..Len(ix) |-> RecordPool[ix[i]]])>>>>))

QueryFragments ==
  << <<"m", "e", "e", "t", "i", "n", "g", " ">>,
     <<"R", "E", "P", "O", "R", "T", " ">>,
     <<"q", "u", "e", "s", "t", "i", "o", "n", " ">>,
     <<"A", "g", "e", "n", "d", "a", " ">>,
     <<"a", "d", "o", "p", "t", "e", "d", " ">>,
     <<"g", "e", "r", "m", "a", "n", " ">>,
     <<"F", "r", "a", "n", "c", "e", " ">>,
     <<"u", "k", " ">>,
     <<"f", "r", "a", "n", "U+00C3", "U+00A7", "a", "i", "s", " ">>,
     <<"r", "U+00C3", "U+00A9", "u", "n", "i", "o", "n", " ">>,
     <<"m", "e", "p", "s", " ">>,
     <<"b", "o", "r", "n", " ", "a", "f", "t", "e", "r", " ", "1", "9", "8", "0", " ">>,
     <<"2", "0", "2", "4", "-", "1", "-", "5", " ">> >>

\* the queries made of at most MaxFrags fragments
FragmentLists == UNION {[1..n -> 1..Len(QueryFragments)] : n \in 0..MaxFrags}

QueryOf(ix) == Join([i \in 1..Len(ix) |-> QueryFragments[ix[i]]])

PipeMessages ==
  << <<>>,
     <<"m", "e", "p", "s">>,
     <<"F", "r", "e", "n", "c", "h", " ", "M", "E", "P", "s">>,
     <<"G", "e", "r", "m", "a", "n", " ", "M", "E", "P", "s", " ", "b", "o", "r", "n", " ", "a", "f", "t", "e", "r", " ", "1", "9", "8", "0">>,
     <<"P", "a", "r", "l", "i", "a", "m", "e", "n", "t", " ", "m", "e", "e", "t", "i", "n", "g", "s">>,
     <<"A", "d", "o", "p", "t", "e", "d", " ", "r", "e", "s", "o", "l", "u", "t", "i", "o", "n", "s">>,
     <<"P", "a", "r", "l", "i", "a", "m", "e", "n", "t", "a", "r", "y", " ", "d", "o", "c", "u", "m", "e", "n", "t", "s">>,
     <<"P", "a", "r", "l", "i", "a", "m", "e", "n", "t", "a", "r", "y", " ", "q", "u", "e", "s", "t", "i", "o", "n", "s">>,
     <<"p", "l", "e", "n", "a", "r", "y", " ", "a", "g", "e", "n", "d", "a">>,
     <<"v", "e", "r", "b", "a", "t", "i", "m", " ", "p", "o", "l", "a", "n", "d">>,
     <<"D", "U+00C3", "U+00A9", "p", "u", "t", "U+00C3", "U+00A9", "s", " ", "f", "r", "a", "n", "U+00C3", "U+00A7", "a", "i", "s">>,
     <<"C", "r", "e", "a", "t", "e", " ", "a", " ", "c", "o", "n", "c", "i", "s", "e", ",", " ", "3", "-", "5", " ", "w", "o", "r", "d", " ", "t", "i", "t", "l", "e">>,
     <<"c", "r", "e", "a", "t", "e", " ", "a", " ", "c", "o", "n", "c", "i", "s", "e", " ", "t", "i", "t", "l", "e">>,
     <<"G", "e", "n", "e", "r", "a", "t", "e", " ", "1", "-", "3", " ", "b", "r", "o", "a", "d", " ", "t", "a", "g", "s", " ", "c", "a", "t", "e", "g", "o", "r", "i", "z", "i", "n", "g", " ", "t", "h", "e", " ", "c", "h", "a", "t">>,
     <<"B", "R", "O", "A", "D", " ", "T", "A", "G", "S", " ", "C", "A", "T", "E", "G", "O", "R", "I", "Z", "I", "N", "G", " ", "f", "r", "e", "n", "c", "h", " ", "m", "e", "p", "s">> >>

\* the filter sets handed to fetch_parliament_data directly
DataTypeChoices ==
  <<"absent", "meps", "meetings", "adopted-texts", "documents", "questions", "plenary-sessions">>
CountryChoices == <<<<>>, <<"F", "R">>, <<"D", "E">>>>
BirthYearChoices == <<0, 1980>>

FiltersOf(dt, c, by) ==
  Opt("data_type", DataTypeChoices[dt] # "absent", DataTypeChoices[dt])
  \o Opt("country", CountryChoices[c] # <<>>, CountryChoices[c])
  \o Opt("birth_year_after", BirthYearChoices[by] # 0, BirthYearChoices[by])

\* records whose country fields have the shapes mep_matches_country tells
\* apart: a list of objects with the code under @id or identifier only, an
\* object with another country and the code in its @id, a string holding
\* the code as a part, a number
ShapeRecords ==
  << JDict(<<<<"identifier", JStr(<<"1", "1">>)>>,
           <<"citizenship", JList(<<JDict(<<<<"@id", JStr(<<"h", "t", "t", "p", ":", "/", "/", "x", "/", "D", "E">>)>>>>)>>)>>>>),
     JDict(<<<<"identifier", JStr(<<"1", "2">>)>>,
           <<"membershipCountry", JList(<<JDict(<<<<"identifier", JStr(<<"F", "R">>)>>>>), JStr(<<"I", "T">>)>>)>>>>),
     JDict(<<<<"identifier", JStr(<<"1", "3">>)>>,
           <<"representedCountry", JDict(<<<<"country", JStr(<<"I", "T">>)>>, <<"@id", JStr(<<"c", "/", "D", "E">>)>>>>)>>>>),
     JDict(<<<<"identifier", JStr(<<"1", "4">>)>>,
           <<"country", JStr(<<"D", "E", "U">>)>>,
           <<"citizenship", JInt(7)>>>>) >>

ShapeLists == UNION {[1..n -> 1..Len(ShapeRecords)] : n \in 0..MaxRecords}

ShapesBody(ix) == Json(JDict(<<<<"data", JList([i \in 1..Len(ix) |-> ShapeRecords[ix[i]]])>>>>))

\* the keys parse_query sets besides data_type and country, in the order
\* it sets them
ExtraFilters ==
  << <<"birth_year_after", 1980>>,
     <<"birth_year_before", 1990>>,
     <<"birth_year", 1975>>,
     <<"date", <<"2", "0", "2", "4", "-", "0", "1", "-", "0", "5">>>> >>

\* filters with the keys of ExtraFilters at the places  ks
FiltersWith(dt, c, ks) ==
  FiltersOf(dt, c, 1)
  \o Join([k \in 1..Len(ExtraFilters) |-> IF k \in ks THEN <<ExtraFilters[k]>> ELSE <<>>])

\* ------------------------------------------------------------ the machine
Init ==
  /\ MAX_RESULTS \in MaxResultsValues
  /\ op = "idle"
  /\ user_message = <<>>
  /\ filters = EmptyDict
  /\ upstream = NoUpstream
  /\ data = EmptyDict
  /\ response = <<>>
  /\ raised = "none"
  /\ calls = NoCalls

\* a call of parse_query
ParseQuery(q) ==
  /\ op = "idle"
  /\ op' = "parse_query"
  /\ user_message' = q
  /\ filters' = parse_query(q)
  /\ UNCHANGED <<MAX_RESULTS, upstream, data, response, raised>>
  /\ calls' = <<1, 0, 0>>

\* a call of fetch_parliament_data, requests.get doing  up
FetchParliamentData(fl, up) ==
  /\ op = "idle"
  /\ op' = "fetch_parliament_data"
  /\ filters' = fl
  /\ upstream' = up
  /\ data' = fetch_parliament_data(fl, up)
  /\ calls' = <<0, 1, 0>>
  /\ UNCHANGED <<MAX_RESULTS, user_message, response, raised>>

\* pipe up to its GET: the title test, then parse_query; a title request
\* returns at once
PipeStart(msg) ==
  /\ op = "idle"
  /\ user_message' = msg
  /\ IF IsTitleRequest(msg)
     THEN /\ op' = "pipe"
          /\ filters' = EmptyDict
          /\ response' = TitleDisabled
          /\ calls' = NoCalls
     ELSE /\ op' = "pipe at GET"
          /\ filters' = parse_query(msg)
          /\ response' = <<>>
          /\ calls' = <<1, 0, 0>>
  /\ UNCHANGED <<MAX_RESULTS, upstream, data, raised>>

\* pipe from its GET on, requests.get doing  up : the rest of
\* fetch_parliament_data, then format_response, each result bound once
PipeFinish(up) ==
  /\ op = "pipe at GET"
  /\ op' = "pipe"
  /\ upstream' = up
  /\ \E d \in {fetch_parliament_data(filters, up)} :
       \E r \in {format_response(user_message, d)} :
          /\ data' = d
          /\ response' = r.text
          /\ raised' = r.raised
  /\ calls' = <<1, 1, 1>>
  /\ UNCHANGED <<MAX_RESULTS, user_message, filters>>

\* the caller has its answer; nothing is kept from one call to the next
Return ==
  /\ op \in {"parse_query", "fetch_parliament_data", "pipe"}
  /\ op' = "idle"
  /\ user_message' = <<>>
  /\ filters' = EmptyDict
  /\ upstream' = NoUpstream
  /\ data' = EmptyDict
  /\ response' = <<>>
  /\ raised' = "none"
  /\ calls' = NoCalls
  /\ UNCHANGED MAX_RESULTS

ParseAny == op = "idle" /\ \E ix \in FragmentLists : \E q \in {QueryOf(ix)} : ParseQuery(q)

FetchFixed ==
  /\ op = "idle"
  /\ \E dt \in 1..Len(DataTypeChoices), c \in 1..Len(CountryChoices), by \in 1..Len(BirthYearChoices),
     u \in 1..Len(FixedUpstreams) :
       \E fl \in {FiltersOf(dt, c, by)} : FetchParliamentData(fl, FixedUpstreams[u])

FetchRecords ==
  /\ op = "idle"
  /\ \E dt \in 1..Len(DataTypeChoices), c \in 1..Len(CountryChoices), by \in 1..Len(BirthYearChoices),
     ix \in RecordLists :
       \E fl \in {FiltersOf(dt, c, by)}, up \in {RecordsBody(ix)} : FetchParliamentData(fl, up)

FetchShapes ==
  /\ op = "idle"
  /\ \E dt \in 1..Len(DataTypeChoices), c \in 1..Len(CountryChoices), by \in 1..Len(BirthYearChoices),
     ix \in ShapeLists :
       \E fl \in {FiltersOf(dt, c, by)}, up \in {ShapesBody(ix)} : FetchParliamentData(fl, up)

FetchWithExtras ==
  /\ op = "idle"
  /\ \E dt \in 1..Len(DataTypeChoices), c \in 1..Len(CountryChoices),
        ks \in SUBSET (1..Len(ExtraFilters)), u \in 1..Len(FixedUpstreams) :
       \E fl \in {FiltersWith(dt, c, ks)} : FetchParliamentData(fl, FixedUpstreams[u])

PipeStartAny == op = "idle" /\ \E m \in 1..Len(PipeMessages) : PipeStart(PipeMessages[m])

PipeFinishFixed ==
  op = "pipe at GET" /\ \E u \in 1..Len(FixedUpstreams) : PipeFinish(FixedUpstreams[u])

PipeFinishRecords ==
  op = "pipe at GET" /\ \E ix \in RecordLists : \E up \in {RecordsBody(ix)} : PipeFinish(up)

Next ==
  \/ ParseAny
  \/ FetchFixed
  \/ FetchRecords
  \/ FetchShapes
  \/ FetchWithExtras
  \/ PipeStartAny
  \/ PipeFinishFixed
  \/ PipeFinishRecords
  \/ Return

Spec == Init /\ [][Next]_vars

\* ------------------------------------------------------------ properties
\* fetch_parliament_data has run and returned  data
Fetched == op = "fetch_parliament_data" \/ (op = "pipe" /\ calls[2] = 1)

Success == Lookup(data, "success")

\* the keys of a dict, in order
Keys(d) == [i \in 1..Len(d) |-> d[i][1]]

\* the response is the error banner with the error text of  data
IsErrorText == response = << <<"error", Lookup(data, "error")>> >>

\* C1: whatever the message and whatever the GET does, pipe returns text
\* and raises nothing, and every fault of the fetch comes out as the error
\* text of a success=false result.
C1_PipeNeverRaises ==
  op = "pipe" =>
    /\ raised = "none"
    /\ response # <<>>
    /\ (calls[2] = 1 /\ ~Success => IsErrorText)

\* the sample functions the source has, by data type; there is none for
\* plenary-sessions
OwnSamples(data_type) ==
  CASE data_type = "meps" -> sample_meps_data
    [] data_type = "meetings" -> sample_meetings_data
    [] data_type = "adopted-texts" -> sample_adopted_texts_data
    [] data_type = "documents" -> sample_documents_data
    [] data_type = "questions" -> sample_questions_data
    [] OTHER -> <<>>

SixDataTypes ==
  {"meps", "meetings", "adopted-texts", "documents", "questions", "plenary-sessions"}

\* C2: for each of the six data types, a status other than 200 gives
\* success=true, results that are all records of that data type's own
\* sample set, and the url of the attempted request.
C2_NonOkGivesOwnSamples ==
  ( /\ op = "fetch_parliament_data"
    /\ Kind(upstream) = "response"
    /\ StatusCode(upstream) # 200
    /\ HasKey(filters, "data_type")
    /\ Lookup(filters, "data_type") \in SixDataTypes )
  =>
    /\ Success
    /\ LET own == OwnSamples(Lookup(filters, "data_type"))
           results == Val(Lookup(data, "results"))
       IN  \A i \in 1..Len(results) : \E j \in 1..Len(own) : results[i] = own[j]
    /\ Lookup(data, "url") = <<API_BASE_URL, "/", Lookup(filters, "data_type")>>

\* C3: when requests.get raises, the result has success=false, an error
\* string that is not empty and no results key, and requests.get was
\* called once.
C3_TransportExceptionIsFailure ==
  (Fetched /\ Kind(upstream) = "exception") =>
    /\ ~Success
    /\ HasKey(data, "error")
    /\ Len(Lookup(data, "error")) > 0
    /\ ~HasKey(data, "results")
    /\ calls[2] = 1

\* a transport exception with an empty str(e) has been turned into a result
C3_Witness ==
  /\ op = "fetch_parliament_data"
  /\ Kind(upstream) = "exception"
  /\ Msg(upstream) = <<>>
  /\ ~Success

C5_TwoShapes ==
  Fetched =>
    \/ Success /\ Keys(data) = <<"success", "count", "total_available", "results", "url", "filters">>
    \/ ~Success /\ Keys(data) = <<"success", "error", "url">>

\* format_response has returned the listing of a successful result with
\* count > 0
Listed ==
  /\ op = "pipe"
  /\ calls[3] = 1
  /\ raised = "none"
  /\ Success
  /\ Lookup(data, "count") > 0

NoticeShown == \E i \in 1..Len(response) : response[i][1] = "showing first"

TotalShown ==
  \E i \in 1..Len(response) :
    response[i] = <<"total available", Lookup(data, "total_available")>>

\* C6 as claimed: the listing of a successful result with count > 0 has the
\* truncation notice exactly when count equals MAX_RESULTS, and the notice
\* reports total_available exactly when total_available exceeds count.
C6_NoticeIffCountEqualsCap ==
  Listed =>
    /\ NoticeShown <=> Lookup(data, "count") = MAX_RESULTS
    /\ TotalShown <=> (NoticeShown /\ Lookup(data, "total_available") > Lookup(data, "count"))

\* C6 as amended: the listing of a successful result with count > 0 has the
\* truncation notice exactly when count is at least MAX_RESULTS, which for
\* MAX_RESULTS >= 0 is when count equals MAX_RESULTS; the notice reports
\* total_available exactly when total_available exceeds count; a filtered
\* count above MAX_RESULTS gives the notice with total_available, a count
\* below MAX_RESULTS gives no notice.
C6_NoticeIffCountReachesCap ==
  Listed =>
    LET count == Lookup(data, "count")
        total_available == Lookup(data, "total_available")
    IN  /\ NoticeShown <=> count >= MAX_RESULTS
        /\ MAX_RESULTS >= 0 => (NoticeShown <=> count = MAX_RESULTS)
        /\ TotalShown <=> (NoticeShown /\ total_available > count)
        /\ total_available > MAX_RESULTS => NoticeShown /\ TotalShown
        /\ count < MAX_RESULTS => ~NoticeShown /\ ~TotalShown

\* a listing cut at MAX_RESULTS, with its notice and the total
C6_Witness ==
  /\ Listed
  /\ Lookup(data, "count") = MAX_RESULTS
  /\ Lookup(data, "total_available") > MAX_RESULTS
  /\ NoticeShown
  /\ TotalShown

\* C7: for a message that contains "Create a concise" or, in any letter
\* case, "broad tags categorizing", pipe returns the fixed string and
\* neither parse_query nor requests.get nor format_response is called.
C7_TitlePhrasesSkipProcessing ==
  ( /\ op \in {"pipe", "pipe at GET"}
    /\ \/ Contains(CreateConciseText, user_message)
       \/ Contains(BroadTagsText, Lower(user_message)) )
  =>
    /\ op = "pipe"
    /\ response = TitleDisabled
    /\ raised = "none"
    /\ calls = NoCalls

\* parse_query has run on  user_message  and returned  filters
Parsed == calls[1] = 1

\* the categories in the order parse_query tests them
Categories ==
  << <<"meetings", MeetingWords>>,
     <<"adopted-texts", AdoptedWords>>,
     <<"documents", DocumentWords>>,
     <<"questions", QuestionWords>>,
     <<"plenary-sessions", PlenaryWords>> >>

Occurs(k) == AnyWordIn(Categories[k][2], Lower(user_message))

\* C8: data_type is the first category, in the order meetings,
\* adopted-texts, documents, questions, plenary-sessions, one of whose
\* words occurs in the lower-cased query, wherever words of later
\* categories occur; it is meps exactly when no word of any category
\* occurs; it is always one of the six data types.
C8_FirstCategoryWins ==
  Parsed =>
    /\ HasKey(filters, "data_type")
    /\ Lookup(filters, "data_type") \in SixDataTypes
    /\ \A k \in 1..Len(Categories) :
         Lookup(filters, "data_type") = Categories[k][1]
           <=> (Occurs(k) /\ \A j \in 1..(k - 1) : ~Occurs(j))
    /\ Lookup(filters, "data_type") = "meps" <=> \A k \in 1..Len(Categories) : ~Occurs(k)

\* a word of documents stands before a word of meetings in the query, and
\* meetings wins
C8_Witness ==
  /\ op = "parse_query"
  /\ user_message = QueryOf(<<2, 1>>)
  /\ Occurs(1)
  /\ Occurs(3)
  /\ Lookup(filters, "data_type") = "meetings"

\* the entries of country_mapping whose name occurs in  user_message  in
\* some letter case
NamedCountries ==
  {i \in 1..Len(country_mapping) :
     Contains(Lower(country_mapping[i][1]), Lower(user_message))}

\* C9: when a name of country_mapping occurs in the query in any letter
\* case, country is the code of the first such entry in mapping order;
\* country is absent exactly when no name occurs.
C9_NamedCountryIsSet ==
  op = "parse_query" =>
    IF NamedCountries = {}
    THEN ~HasKey(filters, "country")
    ELSE /\ HasKey(filters, "country")
         /\ LET first == CHOOSE i \in NamedCountries : \A j \in NamedCountries : i <= j
            IN  Lookup(filters, "country") = country_mapping[first][2]

\* the list fetch_parliament_data filters and cuts: the samples after a
\* status other than 200, the "data" of the body after a 200
Fetchable ==
  IF StatusCode(upstream) # 200
  THEN JList(get_sample_data(DictGet(filters, "data_type", "meps")))
  ELSE Get(Body(upstream), "data", JList(<<>>))

\* the places in  Fetchable  of the records the country filter keeps
KeptAt ==
  IF HasKey(filters, "country")
  THEN {i \in 1..Len(Val(Fetchable)) :
          mep_matches_country(Val(Fetchable)[i], Lookup(filters, "country")) = "match"}
  ELSE 1..Len(Val(Fetchable))

\* the place in  Fetchable  of the k-th record kept
KthKept(k) == CHOOSE i \in KeptAt : Cardinality({j \in KeptAt : j <= i}) = k

\* a successful result for a list of fetched records
SucceededOnList ==
  /\ Fetched
  /\ Success
  /\ Kind(upstream) = "response"
  /\ Tag(Fetchable) = "list"

\* C10: with MAX_RESULTS >= 0, a successful result for a list of records
\* has as results the first count records the country filter keeps, in
\* their order; count = len(results) = min(total_available, MAX_RESULTS);
\* total_available is the number of records kept.
C10_ResultsArePrefixOfFiltered ==
  (SucceededOnList /\ MAX_RESULTS >= 0) =>
    LET results == Val(Lookup(data, "results"))
        count == Lookup(data, "count")
        total_available == Lookup(data, "total_available")
    IN  /\ total_available = Cardinality(KeptAt)
        /\ count = Len(results)
        /\ count = Min(total_available, MAX_RESULTS)
        /\ count <= MAX_RESULTS
        /\ count <= total_available
        /\ \A k \in 1..count : results[k] = Val(Fetchable)[KthKept(k)]

\* the filter has dropped records and the cap has cut the rest
C10_Witness ==
  /\ SucceededOnList
  /\ MAX_RESULTS >= 0
  /\ HasKey(filters, "country")
  /\ Cardinality(KeptAt) < Len(Val(Fetchable))
  /\ Lookup(data, "count") > 0
  /\ Lookup(data, "count") < Lookup(data, "total_available")

\* one value carries the code: a string that holds it, or an object whose
\* country is the code or whose identifier or @id holds it
CarriesCode(value, country_code) ==
  \/ Tag(value) = "str" /\ Contains(country_code, Val(value))
  \/ /\ Tag(value) = "dict"
     /\ \/ HasKey(Val(value), "country") /\ Lookup(Val(value), "country") = JStr(country_code)
        \/ \E k \in {"identifier", "@id"} :
              /\ HasKey(Val(value), k)
              /\ Tag(Lookup(Val(value), k)) = "str"
              /\ Contains(country_code, Val(Lookup(Val(value), k)))

\* the rule as stated: a country field carries the code, or is a list one
\* of whose elements carries it
MatchesAsStated(mep, country_code) ==
  /\ Tag(mep) = "dict"
  /\ \E f \in 1..Len(possible_fields) :
        /\ HasKey(Val(mep), possible_fields[f])
        /\ LET field_value == Lookup(Val(mep), possible_fields[f])
           IN  \/ CarriesCode(field_value, country_code)
               \/ /\ Tag(field_value) = "list"
                  /\ \E i \in 1..Len(Val(field_value)) :
                        CarriesCode(Val(field_value)[i], country_code)

\* the places in  Fetchable  of the records the stated rule keeps
StatedAt ==
  IF HasKey(filters, "country")
  THEN {i \in 1..Len(Val(Fetchable)) :
          MatchesAsStated(Val(Fetchable)[i], Lookup(filters, "country"))}
  ELSE 1..Len(Val(Fetchable))

\* C11: a successful result holds exactly the records that match the
\* country code under the stated rule, lists of objects that carry the code
\* under identifier or @id only included; every record when no country is
\* set.
C11_KeepsExactlyStatedMatches ==
  SucceededOnList =>
    /\ Lookup(data, "total_available") = Cardinality(StatedAt)
    /\ StatedAt = KeptAt

\* the data_type and country of  fl , nothing else
CoreOf(fl) == SelectSeq(fl, LAMBDA kv : kv[1] \in {"data_type", "country"})

\* a result without the filters it echoes
WithoutFilters(d) == SelectSeq(d, LAMBDA kv : kv[1] # "filters")

ExtraKeys == {"birth_year_after", "birth_year_before", "birth_year", "date"}

====
